---- MODULE Spec2Model ----
(***************************************************************************)
(* Model of lambda_function.py: the rule evaluator scan_for_issues, the    *)
(* alert formatter send_security_alert and the entry point lambda_handler. *)
(* Text is a sequence of one-character strings, so that str(), f-strings,  *)
(* endswith, the '/' test and json.dumps are computed character by         *)
(* character.  A JSON value is a record tagged with its Python type.       *)
(***************************************************************************)
EXTENDS Integers, Sequences, FiniteSets, TLC

VARIABLES pc, event, bucket_name, object_key, s3_response, file_content,
          file_size, data, vulnerabilities, alert, exc, response, log, steps

vars == <<pc, event, bucket_name, object_key, s3_response, file_content,
          file_size, data, vulnerabilities, alert, exc, response, log, steps>>

\* ------------------------------------------------------------------ bounds
\* integers stored in a configuration file range over 0..MaxNum
MaxNum == 1
\* the clock read by datetime.now ranges over 0..MaxClock
MaxClock == 1

\* ------------------------------------------------------- Python values
VNull == [t |-> "NoneType", b |-> FALSE, n |-> 0, s |-> << >>, l |-> << >>, d |-> << >>]
VBool(x) == [t |-> "bool", b |-> x, n |-> 0, s |-> << >>, l |-> << >>, d |-> << >>]
VInt(x) == [t |-> "int", b |-> FALSE, n |-> x, s |-> << >>, l |-> << >>, d |-> << >>]
VStr(x) == [t |-> "str", b |-> FALSE, n |-> 0, s |-> x, l |-> << >>, d |-> << >>]
\* a list of strings
VList(x) == [t |-> "list", b |-> FALSE, n |-> 0, s |-> << >>, l |-> x, d |-> << >>]
\* a mapping: a sequence of <<key, value>> pairs in insertion order
VDict(x) == [t |-> "dict", b |-> FALSE, n |-> 0, s |-> << >>, l |-> << >>, d |-> x]

\* outcome of a call: a returned value or a raised exception
Return(v) == [raised |-> FALSE, value |-> v]
Raise(type, msg) == [raised |-> TRUE, type |-> type, msg |-> msg]

RECURSIVE Digits(_)
Digits(k) ==
  LET c == <<"0","1","2","3","4","5","6","7","8","9">>[(k % 10) + 1]
  IN IF k < 10 THEN <<c>> ELSE Append(Digits(k \div 10), c)

RECURSIVE JoinRepr(_)
\* repr of the elements of a list of strings, separated by ", "
JoinRepr(l) ==
  IF l = << >> THEN << >>
  ELSE <<"'">> \o Head(l) \o <<"'">> \o
       (IF Len(l) > 1 THEN <<",", " ">> ELSE << >>) \o JoinRepr(Tail(l))

RECURSIVE PyStr(_)
RECURSIVE PyRepr(_)
RECURSIVE JoinItems(_)
\* repr(v): a string is quoted, anything else is str(v)
PyRepr(v) == IF v.t = "str" THEN <<"'">> \o v.s \o <<"'">> ELSE PyStr(v)

\* 'key': repr(value) of the pairs of a mapping, separated by ", "
JoinItems(d) ==
  IF d = << >> THEN << >>
  ELSE <<"'">> \o Head(d)[1] \o <<"'", ":", " ">> \o PyRepr(Head(d)[2]) \o
       (IF Len(d) > 1 THEN <<",", " ">> ELSE << >>) \o JoinItems(Tail(d))

\* str(v)
PyStr(v) ==
  CASE v.t = "NoneType" -> <<"N","o","n","e">>
    [] v.t = "bool" -> (IF v.b THEN <<"T","r","u","e">> ELSE <<"F","a","l","s","e">>)
    [] v.t = "int" -> Digits(v.n)
    [] v.t = "str" -> v.s
    [] v.t = "list" -> <<"[">> \o JoinRepr(v.l) \o <<"]">>
    [] v.t = "dict" -> <<"{">> \o JoinItems(v.d) \o <<"}">>

\* sub in text, for two strings
Contains(text, sub) ==
  \E i \in 0..(Len(text) - Len(sub)) : SubSeq(text, i + 1, i + Len(sub)) = sub

\* '/' in text
HasSlash(text) == \E i \in 1..Len(text) : text[i] = "/"

\* text.endswith(suffix)
EndsWith(text, suffix) ==
  /\ Len(text) >= Len(suffix)
  /\ SubSeq(text, Len(text) - Len(suffix) + 1, Len(text)) = suffix

\* key in d, for a mapping d
DictHas(d, key) == \E i \in 1..Len(d.d) : d.d[i][1] = key

\* d[key], for a mapping d that has the key
DictItem(d, key) == d.d[CHOOSE i \in 1..Len(d.d) : d.d[i][1] = key][2]

\* d.get(key): None when the key is missing
DictGet(d, key) == IF DictHas(d, key) THEN DictItem(d, key) ELSE VNull

\* numeric value of a bool or an int (True is 1, False is 0)
NumOf(v) == IF v.t = "bool" THEN (IF v.b THEN 1 ELSE 0) ELSE v.n

\* a == b: bool and int compare as numbers, other types only with themselves
PyEq(a, b) ==
  IF a.t \in {"bool", "int"} /\ b.t \in {"bool", "int"}
  THEN NumOf(a) = NumOf(b)
  ELSE a = b

\* truth value of v
Truthy(v) ==
  CASE v.t = "NoneType" -> FALSE
    [] v.t = "bool" -> v.b
    [] v.t = "int" -> v.n # 0
    [] v.t = "str" -> v.s # << >>
    [] v.t = "list" -> v.l # << >>
    [] v.t = "dict" -> v.d # << >>

\* key in v, for a string key and any container v
PyIn(key, v) ==
  CASE v.t = "dict" -> Return(DictHas(v, key))
    [] v.t = "str" -> Return(Contains(v.s, key))
    [] v.t = "list" -> Return(\E i \in 1..Len(v.l) : v.l[i] = key)
    [] OTHER -> Raise("TypeError", <<"a","r","g","u","m","e","n","t"," ","o","f"," ","t","y","p","e"," ","'">> \o
                      (CASE v.t = "int" -> <<"i","n","t">> [] v.t = "bool" -> <<"b","o","o","l">>
                         [] OTHER -> <<"N","o","n","e","T","y","p","e">>) \o <<"'"," ","i","s"," ","n","o","t"," ","i","t","e","r","a","b","l","e">>)

\* v[key], for a string key
PyItem(v, key) ==
  CASE v.t = "dict" -> Return(DictItem(v, key))
    [] v.t = "str" -> Raise("TypeError", <<"s","t","r","i","n","g"," ","i","n","d","i","c","e","s"," ","m","u","s","t"," ","b","e"," ","i","n","t","e","g","e","r","s",","," ","n","o","t"," ","'","s","t","r","'">>)
    [] OTHER -> Raise("TypeError", <<"l","i","s","t"," ","i","n","d","i","c","e","s"," ","m","u","s","t"," ","b","e"," ","i","n","t","e","g","e","r","s"," ","o","r"," ","s","l","i","c","e","s",","," ","n","o","t"," ","s","t","r">>)

\* json.dumps of a string: quoted, with '"' and '\' escaped
RECURSIVE JsonEscape(_)
JsonEscape(text) ==
  IF text = << >> THEN << >>
  ELSE IF Len(text) = 1
  THEN (IF text[1] \in {"\"", "\\"} THEN <<"\\", text[1]>> ELSE text)
  ELSE LET half == Len(text) \div 2
       IN JsonEscape(SubSeq(text, 1, half)) \o JsonEscape(SubSeq(text, half + 1, Len(text)))

JsonDumps(text) == <<"\"">> \o JsonEscape(text) \o <<"\"">>

\* ------------------------------------------------------- scan_for_issues
Finding(type, severity, field, value, recommendation) ==
  [type |-> type, severity |-> severity, field |-> field, value |-> value,
   recommendation |-> recommendation]

REDACTED == <<"[","R","E","D","A","C","T","E","D","]">>

\* 10 MB in bytes
SizeLimit == 10 * 1024 * 1024

SslRule(config) ==
  IF PyEq(DictGet(config, <<"s","s","l","_","e","n","a","b","l","e","d">>), VBool(FALSE))
  THEN <<Finding("ssl_disabled", "HIGH", "ssl_enabled", <<"f","a","l","s","e">>,
                 "Enable SSL for encrypted connections")>>
  ELSE << >>

DebugRule(config) ==
  IF PyEq(DictGet(config, <<"d","e","b","u","g","_","m","o","d","e">>), VBool(TRUE))
  THEN <<Finding("debug_mode_enabled", "MEDIUM", "debug_mode", <<"t","r","u","e">>,
                 "Disable debug mode in production")>>
  ELSE << >>

\* a finding that carries the password it found
PasswordFindingLeaky(password) ==
  Finding("hardcoded_password", "CRITICAL", "database.password", PyStr(password),
          "Use AWS Parameter Store or Secrets Manager")

PasswordFinding(password) ==
  Finding("hardcoded_password", "CRITICAL", "database.password", REDACTED,
          "Use AWS Parameter Store or Secrets Manager")

\* a stricter test: only a password that is a string is looked at
PasswordFlaggedStrict(password) == password.t = "str" /\ ~HasSlash(password.s)

PasswordFlagged(password) == ~HasSlash(PyStr(password))

\* the password rule raises when 'database' is not a mapping
PasswordRule(config) ==
  IF ~DictHas(config, <<"d","a","t","a","b","a","s","e">>)
  THEN Return(<< >>)
  ELSE LET database == DictItem(config, <<"d","a","t","a","b","a","s","e">>)
           has == PyIn(<<"p","a","s","s","w","o","r","d">>, database)
       IN IF has.raised THEN has
          ELSE IF ~has.value THEN Return(<< >>)
          ELSE LET password == PyItem(database, <<"p","a","s","s","w","o","r","d">>)
               IN IF password.raised THEN password
                  ELSE IF PasswordFlagged(password.value)
                       THEN Return(<<PasswordFinding(password.value)>>)
                       ELSE Return(<< >>)

ApiKeyFinding(api_key) ==
  Finding("hardcoded_api_key", "HIGH", "api_key", REDACTED,
          "Use AWS Parameter Store or Secrets Manager")

ApiKeyRule(config) ==
  IF DictHas(config, <<"a","p","i","_","k","e","y">>) /\ ~HasSlash(PyStr(DictItem(config, <<"a","p","i","_","k","e","y">>)))
  THEN <<ApiKeyFinding(DictItem(config, <<"a","p","i","_","k","e","y">>))>>
  ELSE << >>

SizeRule(size) ==
  IF Truthy(size) /\ size.n > SizeLimit
  THEN <<Finding("suspicious_file_size", "MEDIUM", "file_size",
                 PyStr(size) \o <<" ","b","y","t","e","s">>,
                 "Review why configuration file is unusually large")>>
  ELSE << >>

\* the rules run in order; the first one that raises ends the call
scan_for_issues(config, size) ==
  IF config.t # "dict"
  THEN Raise("AttributeError", <<"'">> \o
             (CASE config.t = "list" -> <<"l","i","s","t">> [] config.t = "str" -> <<"s","t","r">>
                [] config.t = "int" -> <<"i","n","t">> [] config.t = "bool" -> <<"b","o","o","l">>
                [] OTHER -> <<"N","o","n","e","T","y","p","e">>) \o <<"'"," ","o","b","j","e","c","t"," ","h","a","s"," ","n","o"," ","a","t","t","r","i","b","u","t","e"," ","'","g","e","t","'">>)
  ELSE LET pw == PasswordRule(config)
       IN IF pw.raised THEN pw
          ELSE Return(SslRule(config) \o DebugRule(config) \o pw.value \o
                      ApiKeyRule(config) \o SizeRule(size))

\* --------------------------------------------------- send_security_alert
CountSeverity(findings, severity) ==
  Cardinality({i \in 1..Len(findings) : findings[i].severity = severity})

\* a summary whose HIGH count takes in the CRITICAL findings
SeveritySummaryAtLeastHigh(findings) ==
  [CRITICAL |-> CountSeverity(findings, "CRITICAL"),
   HIGH |-> CountSeverity(findings, "CRITICAL") + CountSeverity(findings, "HIGH"),
   MEDIUM |-> CountSeverity(findings, "MEDIUM")]

SeveritySummary(findings) ==
  [CRITICAL |-> CountSeverity(findings, "CRITICAL"),
   HIGH |-> CountSeverity(findings, "HIGH"),
   MEDIUM |-> CountSeverity(findings, "MEDIUM")]

NoAlert == [is_none |-> TRUE]

\* a formatter without the early return for an empty list
send_security_alert_always(bucket, key, findings, now) ==
  [is_none |-> FALSE,
   alert_type |-> "SECURITY_SCAN_ALERT",
   timestamp |-> now,
   file_scanned |-> <<"s","3",":","/","/">> \o bucket \o <<"/">> \o key,
   vulnerability_count |-> Len(findings),
   vulnerabilities |-> findings,
   severity_summary |-> SeveritySummary(findings)]

\* now is the clock value read by datetime.now
send_security_alert(bucket, key, findings, now) ==
  IF findings = << >>
  THEN NoAlert
  ELSE [is_none |-> FALSE,
        alert_type |-> "SECURITY_SCAN_ALERT",
        timestamp |-> now,
        file_scanned |-> <<"s","3",":","/","/">> \o bucket \o <<"/">> \o key,
        vulnerability_count |-> Len(findings),
        vulnerabilities |-> findings,
        severity_summary |-> SeveritySummary(findings)]

\* ------------------------------------------------------------ inputs
IntValues == {VInt(k) : k \in 0..MaxNum}

SslValues == {VBool(FALSE), VBool(TRUE), VNull, VStr(<<"f","a","l","s","e">>)} \cup IntValues

DebugValues == {VBool(TRUE), VBool(FALSE)} \cup IntValues

PasswordValues ==
  {VStr(<<"p","@","s","s","w","0","r","d">>), VStr(<<"h","u","n","t","e","r","2">>), VStr(<<"/","s","e","c","r","e","t","s","/","d","b","/","p","a","s","s","w","o","r","d">>), VBool(TRUE),
   VNull, VList(<<<<"a","/","b">>>>), VList(<<<<"a","b">>>>)} \cup IntValues

DatabaseValues ==
  {VNull, VStr(<<"p","a","s","s","w","o","r","d">>), VStr(<<"d","b">>), VList(<< >>), VList(<<<<"p","a","s","s","w","o","r","d">>>>),
   VDict(<< >>), VDict(<< <<<<"h","o","s","t">>, VStr(<<"d","b">>)>> >>)}
  \cup IntValues
  \cup {VDict(<< <<<<"p","a","s","s","w","o","r","d">>, p>> >>) : p \in PasswordValues}

ApiKeyValues == {VStr(<<"a","b","c","1","2","3">>), VStr(<<"x","y","z">>), VStr(<<"/","p","r","o","d","/","a","p","i","/","k","e","y">>)} \cup IntValues

\* a field is absent, or present with one of the values
Entry(key, values) == {<< >>} \cup {<< <<key, v>> >> : v \in values}

Configs ==
  {VDict(a \o b \o c \o d) :
     a \in Entry(<<"s","s","l","_","e","n","a","b","l","e","d">>, SslValues), b \in Entry(<<"d","e","b","u","g","_","m","o","d","e">>, DebugValues),
     c \in Entry(<<"d","a","t","a","b","a","s","e">>, DatabaseValues), d \in Entry(<<"a","p","i","_","k","e","y">>, ApiKeyValues)}

FileSizes == {VInt(0), VInt(5000), VInt(SizeLimit), VInt(SizeLimit + 1), VInt(11000000)}

Buckets == {<<"u","p","l","o","a","d","s">>, <<"b">>}

Keys == {<<"n","o","t","e","s",".","t","x","t">>, <<"C","O","N","F","I","G",".","J","S","O","N">>, <<"j","s","o","n">>, <<"a",".","j","s","o","n","l">>, <<"c","o","n","f","i","g",".","j","s","o","n">>, <<".","j","s","o","n">>}

\* the keys used when send_security_alert is called on its own
AlertKeys == {<<"c","o","n","f","i","g",".","j","s","o","n">>, <<"n","o","t","e","s",".","t","x","t">>}

Clock == 0..MaxClock

\* ------------------------------------------------------- lambda_handler
NoResponse == [is_none |-> TRUE]

NoException == [raised |-> FALSE]

Respond(status, message) ==
  [is_none |-> FALSE, statusCode |-> status, body |-> JsonDumps(message)]

\* an upload notification; Records may be missing or empty
Events ==
  {[has_records |-> FALSE, records |-> << >>], [has_records |-> TRUE, records |-> << >>]}
  \cup {[has_records |-> TRUE, records |-> <<[bucket |-> b, key |-> k]>>] :
          b \in Buckets, k \in Keys}

\* a stored object: its bytes decode as UTF-8 or not, the decoded text is
\* JSON for a value or is rejected by json.loads with an error
Document(value) == [valid |-> TRUE, value |-> value]

Malformed(error) == [valid |-> FALSE, error |-> error]

StoredObject(utf8, text, length) == [utf8 |-> utf8, text |-> text, length |-> length]

\* what get_object can answer: an error, or an object and its ContentLength
S3Answers ==
  {Raise("ClientError", <<"A","n"," ","e","r","r","o","r"," ","o","c","c","u","r","r","e","d"," ","(","N","o","S","u","c","h","K","e","y",")"," ","w","h","e","n"," ","c","a","l","l","i","n","g"," ","t","h","e"," ","G","e","t","O","b","j","e","c","t"," ","o","p","e","r","a","t","i","o","n",":"," ","T","h","e"," ","s","p","e","c","i","f","i","e","d"," ","k","e","y"," ","d","o","e","s"," ","n","o","t"," ","e","x","i","s","t",".">>)}
  \cup {Return(StoredObject(FALSE, Malformed(<< >>), VInt(1)))}
  \cup {Return(StoredObject(TRUE, Malformed(e), VInt(5000))) :
          e \in {<<"E","x","p","e","c","t","i","n","g"," ","v","a","l","u","e",":"," ","l","i","n","e"," ","1"," ","c","o","l","u","m","n"," ","1"," ","(","c","h","a","r"," ","0",")">>,
                 <<"I","n","v","a","l","i","d"," ","\\","e","s","c","a","p","e",":"," ","l","i","n","e"," ","1"," ","c","o","l","u","m","n"," ","2"," ","(","c","h","a","r"," ","1",")">>}}
  \cup {Return(StoredObject(TRUE, Document(VList(<< >>)), VInt(5000)))}
  \cup {Return(StoredObject(TRUE, Document(c), n)) : c \in Configs, n \in FileSizes}

\* bytes.decode('utf-8')
decode(object) ==
  IF object.utf8 THEN Return(object.text)
  ELSE Raise("UnicodeDecodeError",
             <<"'","u","t","f","-","8","'"," ","c","o","d","e","c"," ","c","a","n","'","t"," ","d","e","c","o","d","e"," ","b","y","t","e"," ","0","x","f","f"," ","i","n"," ","p","o","s","i","t","i","o","n"," ","0",":"," ","i","n","v","a","l","i","d"," ","s","t","a","r","t"," ","b","y","t","e">>)

\* json.loads
json_loads(text) ==
  IF text.valid THEN Return(text.value) ELSE Raise("JSONDecodeError", text.error)

\* lower case of the letters of JSON
Lower(c) ==
  CASE c = "J" -> "j" [] c = "S" -> "s" [] c = "O" -> "o" [] c = "N" -> "n"
    [] OTHER -> c

\* a suffix test that ignores case
IsJsonKeyAnyCase(key) == EndsWith([i \in DOMAIN key |-> Lower(key[i])], <<".","j","s","o","n">>)

\* object_key.endswith('.json')
IsJsonKey(key) == EndsWith(key, <<".","j","s","o","n">>)

Init ==
  /\ pc = "start"
  /\ event \in Events
  /\ bucket_name = << >>
  /\ object_key = << >>
  /\ s3_response = NoResponse
  /\ file_content = Malformed(<< >>)
  /\ file_size = VNull
  /\ data = VNull
  /\ vulnerabilities = << >>
  /\ alert = NoAlert
  /\ exc = NoException
  /\ response = NoResponse
  /\ log = << >>
  /\ steps = << >>

\* lines 133-140: log the event, read bucket and key of the first record
ParseEvent ==
  /\ pc = "start"
  /\ IF ~event.has_records
     THEN /\ exc' = Raise("KeyError", <<"'","R","e","c","o","r","d","s","'">>)
          /\ log' = Append(log, "received")
          /\ pc' = "except"
          /\ UNCHANGED <<bucket_name, object_key>>
     ELSE IF event.records = << >>
     THEN /\ exc' = Raise("IndexError", <<"l","i","s","t"," ","i","n","d","e","x"," ","o","u","t"," ","o","f"," ","r","a","n","g","e">>)
          /\ log' = Append(log, "received")
          /\ pc' = "except"
          /\ UNCHANGED <<bucket_name, object_key>>
     ELSE /\ bucket_name' = event.records[1].bucket
          /\ object_key' = event.records[1].key
          /\ log' = log \o <<"received", "processing">>
          /\ pc' = "check_extension"
          /\ UNCHANGED exc
  /\ UNCHANGED <<event, s3_response, file_content, file_size, data,
                 vulnerabilities, alert, response, steps>>

\* lines 144-149: a key that is not a JSON file is skipped with status 200
CheckExtension ==
  /\ pc = "check_extension"
  /\ IF ~IsJsonKey(object_key)
     THEN /\ log' = Append(log, "skipping")
          /\ response' = Respond(200, <<"N","o","n","-","J","S","O","N"," ","f","i","l","e"," ","s","k","i","p","p","e","d">>)
          /\ steps' = Append(steps, "respond")
          /\ pc' = "done"
     ELSE /\ pc' = "get_object"
          /\ UNCHANGED <<log, response, steps>>
  /\ UNCHANGED <<event, bucket_name, object_key, s3_response, file_content,
                 file_size, data, vulnerabilities, alert, exc>>

\* lines 152-155: create the client and download the object
GetObject ==
  /\ pc = "get_object"
  /\ \E answer \in S3Answers :
       IF answer.raised
       THEN /\ exc' = answer
            /\ pc' = "except"
            /\ UNCHANGED <<s3_response, steps>>
       ELSE /\ s3_response' = answer.value
            /\ steps' = Append(steps, "retrieve")
            /\ pc' = "decode"
            /\ UNCHANGED exc
  /\ UNCHANGED <<event, bucket_name, object_key, file_content, file_size, data,
                 vulnerabilities, alert, response, log>>

\* lines 156-159: decode the body, read ContentLength, log the size
Decode ==
  /\ pc = "decode"
  /\ LET text == decode(s3_response)
     IN IF text.raised
        THEN /\ exc' = text
             /\ pc' = "except"
             /\ UNCHANGED <<file_content, file_size, log>>
        ELSE /\ file_content' = text.value
             /\ file_size' = s3_response.length
             /\ log' = Append(log, "file_size")
             /\ pc' = "parse"
             /\ UNCHANGED exc
  /\ UNCHANGED <<event, bucket_name, object_key, s3_response, data,
                 vulnerabilities, alert, response, steps>>

\* line 162
ParseJson ==
  /\ pc = "parse"
  /\ LET parsed == json_loads(file_content)
     IN IF parsed.raised
        THEN /\ exc' = parsed
             /\ pc' = "except"
             /\ UNCHANGED <<data, steps>>
        ELSE /\ data' = parsed.value
             /\ steps' = Append(steps, "parse")
             /\ pc' = "scan"
             /\ UNCHANGED exc
  /\ UNCHANGED <<event, bucket_name, object_key, s3_response, file_content,
                 file_size, vulnerabilities, alert, response, log>>

\* lines 165-166
Scan ==
  /\ pc = "scan"
  /\ LET found == scan_for_issues(data, file_size)
     IN IF found.raised
        THEN /\ exc' = found
             /\ pc' = "except"
             /\ UNCHANGED <<vulnerabilities, log, steps>>
        ELSE /\ vulnerabilities' = found.value
             /\ log' = Append(log, "found")
             /\ steps' = Append(steps, "evaluate")
             /\ pc' = "send_alert"
             /\ UNCHANGED exc
  /\ UNCHANGED <<event, bucket_name, object_key, s3_response, file_content,
                 file_size, data, alert, response>>

\* line 167: the alert, if any, is printed by send_security_alert
SendAlert ==
  /\ pc = "send_alert"
  /\ \E now \in Clock :
       alert' = send_security_alert(bucket_name, object_key, vulnerabilities, now)
  /\ log' = Append(log, IF alert'.is_none THEN "no_alert" ELSE "alert")
  /\ steps' = Append(steps, "alert")
  /\ pc' = "return"
  /\ UNCHANGED <<event, bucket_name, object_key, s3_response, file_content,
                 file_size, data, vulnerabilities, exc, response>>

\* lines 169-172
ReturnSuccess ==
  /\ pc = "return"
  /\ response' = Respond(200, <<"F","i","l","e"," ","p","r","o","c","e","s","s","e","d"," ","s","u","c","c","e","s","s","f","u","l","l","y","."," ","F","o","u","n","d"," ">> \o
                              Digits(Len(vulnerabilities)) \o <<" ","v","u","l","n","e","r","a","b","i","l","i","t","i","e","s",".">>)
  /\ steps' = Append(steps, "respond")
  /\ pc' = "done"
  /\ UNCHANGED <<event, bucket_name, object_key, s3_response, file_content,
                 file_size, data, vulnerabilities, alert, exc, log>>

\* an exception handler that logs nothing
HandleExceptionSilent ==
  /\ pc = "except"
  /\ pc' = "return_error"
  /\ UNCHANGED <<event, bucket_name, object_key, s3_response, file_content,
                 file_size, data, vulnerabilities, alert, exc, response, log, steps>>

\* lines 174-176: every exception is caught and logged
HandleException ==
  /\ pc = "except"
  /\ log' = Append(log, "error")
  /\ pc' = "return_error"
  /\ UNCHANGED <<event, bucket_name, object_key, s3_response, file_content,
                 file_size, data, vulnerabilities, alert, exc, response, steps>>

\* a failure response that does not carry the reason
ReturnFailureGeneric ==
  /\ pc = "return_error"
  /\ response' = Respond(500, <<"E","r","r","o","r",":"," ","i","n","t","e","r","n","a","l"," ","e","r","r","o","r">>)
  /\ steps' = Append(steps, "respond")
  /\ pc' = "done"
  /\ UNCHANGED <<event, bucket_name, object_key, s3_response, file_content,
                 file_size, data, vulnerabilities, alert, exc, log>>

\* lines 177-180
ReturnFailure ==
  /\ pc = "return_error"
  /\ response' = Respond(500, <<"E","r","r","o","r",":"," ">> \o exc.msg)
  /\ steps' = Append(steps, "respond")
  /\ pc' = "done"
  /\ UNCHANGED <<event, bucket_name, object_key, s3_response, file_content,
                 file_size, data, vulnerabilities, alert, exc, log>>

Next ==
  \/ ParseEvent
  \/ CheckExtension
  \/ GetObject
  \/ Decode
  \/ ParseJson
  \/ Scan
  \/ SendAlert
  \/ ReturnSuccess
  \/ HandleException
  \/ ReturnFailure

Spec == Init /\ [][Next]_vars

\* ------------------------------------- direct calls of the two functions
\* scan_for_issues(config, size) followed by send_security_alert on its result
ScanInit ==
  /\ pc = "call_scan"
  /\ data \in Configs
  /\ file_size \in FileSizes \cup {VNull}
  /\ event = [has_records |-> FALSE, records |-> << >>]
  /\ bucket_name = << >>
  /\ object_key = << >>
  /\ s3_response = NoResponse
  /\ file_content = Malformed(<< >>)
  /\ vulnerabilities = << >>
  /\ alert = NoAlert
  /\ exc = NoException
  /\ response = NoResponse
  /\ log = << >>
  /\ steps = << >>

CallScan ==
  /\ pc = "call_scan"
  /\ LET found == scan_for_issues(data, file_size)
     IN IF found.raised
        THEN /\ exc' = found
             /\ pc' = "raised"
             /\ UNCHANGED vulnerabilities
        ELSE /\ vulnerabilities' = found.value
             /\ pc' = "call_alert"
             /\ UNCHANGED exc
  /\ UNCHANGED <<event, bucket_name, object_key, s3_response, file_content,
                 file_size, data, alert, response, log, steps>>

CallAlert ==
  /\ pc = "call_alert"
  /\ \E b \in Buckets, k \in AlertKeys, now \in Clock :
       /\ bucket_name' = b
       /\ object_key' = k
       /\ alert' = send_security_alert(b, k, vulnerabilities, now)
  /\ pc' = "returned"
  /\ UNCHANGED <<event, s3_response, file_content, file_size, data,
                 vulnerabilities, exc, response, log, steps>>

ScanNext == CallScan \/ CallAlert

ScanSpec == ScanInit /\ [][ScanNext]_vars

\* ------------------------------------------------------------ properties
\* the call of scan_for_issues is over, with a list or with an exception
ScanDone == pc \in {"call_alert", "returned", "raised"}

\* number of findings of a type
RECURSIVE CountType(_, _)
CountType(findings, type) ==
  IF findings = << >> THEN 0
  ELSE (IF Head(findings).type = type THEN 1 ELSE 0) + CountType(Tail(findings), type)

\* number of findings of a severity
RECURSIVE Tally(_, _)
Tally(findings, severity) ==
  IF findings = << >> THEN 0
  ELSE (IF Head(findings).severity = severity THEN 1 ELSE 0) + Tally(Tail(findings), severity)

\* the field of a configuration record is present
Present(config, key) == \E i \in 1..Len(config.d) : config.d[i][1] = key

\* the value of a present field
Field(config, key) == config.d[CHOOSE i \in 1..Len(config.d) : config.d[i][1] = key][2]

\* the text has no '/' in it
SlashFree(text) == \A i \in DOMAIN text : text[i] # "/"

\* C1: send_security_alert returns an alert exactly when the findings list
\* is not empty, and scan_for_issues({}, None) followed by it gives zero
\* findings and no alert.
AlertIffFindings ==
  pc = "returned" =>
    /\ alert.is_none <=> Len(vulnerabilities) = 0
    /\ (data = VDict(<< >>) /\ file_size = VNull) =>
         (Len(vulnerabilities) = 0 /\ alert.is_none)

EmptyInputNoAlert ==
  /\ pc = "returned"
  /\ data = VDict(<< >>)
  /\ file_size = VNull
  /\ alert.is_none

\* length of the run of backslashes that ends at position i
BackslashRun(text, i) ==
  CHOOSE k \in 0..i : /\ \A j \in (i - k + 1)..i : text[j] = "\\"
                      /\ (k = i \/ text[i - k] # "\\")

\* position i holds a backslash that escapes the next character
Escaping(text, i) == BackslashRun(text, i) % 2 = 1

\* the characters of positions lo..hi without the escaping backslashes
RECURSIVE Unescaped(_, _, _)
Unescaped(text, lo, hi) ==
  IF lo > hi THEN << >>
  ELSE IF lo = hi THEN (IF Escaping(text, lo) THEN << >> ELSE <<text[lo]>>)
  ELSE LET mid == (lo + hi) \div 2
       IN Unescaped(text, lo, mid) \o Unescaped(text, mid + 1, hi)

\* the string a JSON string literal stands for
MessageOf(body) == Unescaped(body, 2, Len(body) - 1)

\* the key ends in the five characters .json
JsonSuffix(key) ==
  /\ Len(key) >= 5
  /\ <<key[Len(key) - 4], key[Len(key) - 3], key[Len(key) - 2], key[Len(key) - 1],
       key[Len(key)]>> = <<".", "j", "s", "o", "n">>

\* C2: for a key ending in '.json', a failure of retrieval, decoding, JSON
\* parsing or rule evaluation is not propagated: the handler answers with
\* status 500 and a message that contains the text of the error; it answers
\* 200 only when the key was skipped or the scan ran to completion.
FailureBecomes500 ==
  /\ (exc.raised /\ JsonSuffix(object_key)) =>
       /\ pc \in {"except", "return_error", "done"}
       /\ exc.type \in {"ClientError", "UnicodeDecodeError", "JSONDecodeError",
                        "TypeError", "AttributeError"}
       /\ pc = "done" => /\ response.statusCode = 500
                         /\ Contains(MessageOf(response.body), exc.msg)
  /\ (pc = "done" /\ response.statusCode = 200) =>
       /\ ~exc.raised
       /\ \/ ~JsonSuffix(object_key) /\ steps = <<"respond">>
          \/ steps = <<"retrieve", "parse", "evaluate", "alert", "respond">>

ParseFailureAnswered ==
  /\ pc = "done"
  /\ JsonSuffix(object_key)
  /\ exc.raised
  /\ exc.type = "JSONDecodeError"
  /\ \E i \in DOMAIN exc.msg : exc.msg[i] = "\\"
  /\ response.statusCode = 500

\* C3: a key that does not end in the case-sensitive suffix '.json' is
\* answered with status 200 and nothing is retrieved, parsed, evaluated or
\* alerted in that invocation; retrieval happens only for keys ending in
\* '.json'.
SkippedNeverRetrieves ==
  /\ (pc \notin {"start", "except", "return_error"} /\ ~exc.raised
      /\ ~JsonSuffix(object_key)) =>
       /\ pc \in {"check_extension", "done"}
       /\ s3_response = NoResponse
       /\ \A i \in DOMAIN steps : steps[i] = "respond"
       /\ \A i \in DOMAIN log : log[i] \in {"received", "processing", "skipping"}
       /\ pc = "done" => response.statusCode = 200
  /\ (s3_response # NoResponse \/ \E i \in DOMAIN steps : steps[i] = "retrieve") =>
       JsonSuffix(object_key)

UpperCaseKeySkipped ==
  /\ pc = "done"
  /\ object_key = <<"C","O","N","F","I","G",".","J","S","O","N">>
  /\ response.statusCode = 200
  /\ s3_response = NoResponse

\* C4: scan_for_issues never raises, whatever is stored under 'database'.
ScanNeverRaises == pc # "raised"

\* database.password is there and its string form has no '/'
LiteralPassword(config) ==
  /\ Present(config, <<"d","a","t","a","b","a","s","e">>)
  /\ Field(config, <<"d","a","t","a","b","a","s","e">>).t = "dict"
  /\ Present(Field(config, <<"d","a","t","a","b","a","s","e">>), <<"p","a","s","s","w","o","r","d">>)
  /\ SlashFree(PyStr(Field(Field(config, <<"d","a","t","a","b","a","s","e">>), <<"p","a","s","s","w","o","r","d">>)))

\* C5: a hardcoded_password finding (CRITICAL) is produced exactly when
\* 'database' is present, contains 'password' and the string form of the
\* password has no '/'.
PasswordFindingExactly ==
  ScanDone =>
    /\ CountType(vulnerabilities, "hardcoded_password") =
         (IF LiteralPassword(data) THEN 1 ELSE 0)
    /\ \A i \in DOMAIN vulnerabilities :
         vulnerabilities[i].type = "hardcoded_password" =>
           vulnerabilities[i].severity = "CRITICAL"

NonStringPasswordFlagged ==
  /\ pc = "returned"
  /\ LiteralPassword(data)
  /\ Field(Field(data, <<"d","a","t","a","b","a","s","e">>), <<"p","a","s","s","w","o","r","d">>).t # "str"
  /\ CountType(vulnerabilities, "hardcoded_password") = 1

RuleOrder ==
  <<"ssl_disabled", "debug_mode_enabled", "hardcoded_password", "hardcoded_api_key",
    "suspicious_file_size">>

\* the field each rule reads, in rule order
RuleField == <<<<"s","s","l","_","e","n","a","b","l","e","d">>, <<"d","e","b","u","g","_","m","o","d","e">>, <<"d","a","t","a","b","a","s","e">>, <<"a","p","i","_","k","e","y">>, <<"f","i","l","e","_","s","i","z","e">>>>

\* the configuration record reduced to one field
RECURSIVE Only(_, _)
Only(pairs, key) ==
  IF pairs = << >> THEN << >>
  ELSE (IF Head(pairs)[1] = key THEN <<Head(pairs)>> ELSE << >>) \o Only(Tail(pairs), key)

\* what the evaluation finds when rule r is given its own input and nothing else
Alone(r) ==
  LET found == scan_for_issues(VDict(Only(data.d, RuleField[r])),
                               IF r = 5 THEN file_size ELSE VNull)
  IN IF found.raised THEN << >> ELSE found.value

\* C6: every finding type occurs at most once, the types are in rule order,
\* and a rule's finding is present exactly when that rule, given its own
\* input alone, produces it: no rule suppresses or cuts short another.
RulesIndependentInOrder ==
  ScanDone =>
    /\ \A i, j \in DOMAIN vulnerabilities :
         i < j => \E a, b \in 1..5 : /\ a < b
                                     /\ RuleOrder[a] = vulnerabilities[i].type
                                     /\ RuleOrder[b] = vulnerabilities[j].type
    /\ \A r \in 1..5 :
         CountType(vulnerabilities, RuleOrder[r]) = CountType(Alone(r), RuleOrder[r])

\* C7: exactly one ssl_disabled finding (HIGH) when ssl_enabled is the
\* boolean false, none when it is absent or holds any other value.
SslFindingExactly ==
  pc \in {"call_alert", "returned"} =>
    IF Present(data, <<"s","s","l","_","e","n","a","b","l","e","d">>) /\ Field(data, <<"s","s","l","_","e","n","a","b","l","e","d">>) = VBool(FALSE)
    THEN /\ CountType(vulnerabilities, "ssl_disabled") = 1
         /\ \A i \in DOMAIN vulnerabilities :
              vulnerabilities[i].type = "ssl_disabled" =>
                vulnerabilities[i].severity = "HIGH"
    ELSE CountType(vulnerabilities, "ssl_disabled") = 0

\* C8: the alert's severity_summary has exactly the keys CRITICAL, HIGH and
\* MEDIUM, each the number of findings of that severity, their sum is
\* vulnerability_count, which is the length of the findings list, and
\* 'vulnerabilities' is the findings list in evaluation order.
SummaryCountsFindings ==
  (pc = "returned" /\ ~alert.is_none) =>
    /\ DOMAIN alert.severity_summary = {"CRITICAL", "HIGH", "MEDIUM"}
    /\ \A level \in {"CRITICAL", "HIGH", "MEDIUM"} :
         alert.severity_summary[level] = Tally(vulnerabilities, level)
    /\ alert.severity_summary["CRITICAL"] + alert.severity_summary["HIGH"]
         + alert.severity_summary["MEDIUM"] = alert.vulnerability_count
    /\ alert.vulnerability_count = Len(vulnerabilities)
    /\ alert.vulnerabilities = vulnerabilities
    /\ (/\ data = VDict(<< <<<<"s","s","l","_","e","n","a","b","l","e","d">>, VBool(FALSE)>>, <<<<"d","e","b","u","g","_","m","o","d","e">>, VBool(TRUE)>>,
                           <<<<"a","p","i","_","k","e","y">>, VStr(<<"a","b","c","1","2","3">>)>> >>)
        /\ file_size = VInt(5000)) =>
         /\ alert.severity_summary = [CRITICAL |-> 0, HIGH |-> 2, MEDIUM |-> 1]
         /\ [i \in 1..3 |-> vulnerabilities[i].type] =
              <<"ssl_disabled", "debug_mode_enabled", "hardcoded_api_key">>

ThreeFindingsScenario ==
  /\ pc = "returned"
  /\ data = VDict(<< <<<<"s","s","l","_","e","n","a","b","l","e","d">>, VBool(FALSE)>>, <<<<"d","e","b","u","g","_","m","o","d","e">>, VBool(TRUE)>>,
                     <<<<"a","p","i","_","k","e","y">>, VStr(<<"a","b","c","1","2","3">>)>> >>)
  /\ file_size = VInt(5000)
  /\ ~alert.is_none
  /\ alert.vulnerability_count = 3

StepRank(step) ==
  CASE step = "retrieve" -> 1 [] step = "parse" -> 2 [] step = "evaluate" -> 3
    [] step = "alert" -> 4 [] step = "respond" -> 5

Logged(entry) == \E i \in DOMAIN log : log[i] = entry

\* C9: the steps of an invocation occur at most once each and in the order
\* retrieve, parse, evaluate, alert, respond, with exactly one response; an
\* alert is emitted only after retrieval, parsing and evaluation completed,
\* an invocation that emits an alert ends with status 200, and one that
\* ends with status 500 emitted no alert and logged the failure before
\* responding.
OneCycleNoPartialSuccess ==
  /\ \A i, j \in DOMAIN steps : i < j => StepRank(steps[i]) < StepRank(steps[j])
  /\ (pc = "done") <=> ~response.is_none
  /\ (pc = "done") <=> (steps # << >> /\ steps[Len(steps)] = "respond")
  /\ Logged("alert") =>
       /\ Len(steps) >= 4
       /\ SubSeq(steps, 1, 4) = <<"retrieve", "parse", "evaluate", "alert">>
       /\ ~exc.raised
       /\ pc = "done" => response.statusCode = 200
  /\ (~response.is_none /\ response.statusCode = 500) =>
       /\ ~Logged("alert")
       /\ alert.is_none
       /\ Logged("error")

EvaluationFailureAnswered ==
  /\ pc = "done"
  /\ response.statusCode = 500
  /\ steps = <<"retrieve", "parse", "respond">>
  /\ Logged("error")

\* the record with database.password and api_key, where present, replaced
WithSecrets(config, password, api_key) ==
  VDict([i \in DOMAIN config.d |->
           IF config.d[i][1] = <<"a","p","i","_","k","e","y">> THEN <<<<"a","p","i","_","k","e","y">>, api_key>>
           ELSE IF config.d[i][1] = <<"d","a","t","a","b","a","s","e">> /\ config.d[i][2].t = "dict"
           THEN <<<<"d","a","t","a","b","a","s","e">>,
                  VDict([j \in DOMAIN config.d[i][2].d |->
                           IF config.d[i][2].d[j][1] = <<"p","a","s","s","w","o","r","d">>
                           THEN <<<<"p","a","s","s","w","o","r","d">>, password>>
                           ELSE config.d[i][2].d[j]])>>
           ELSE config.d[i]])

\* the secrets of a record, as strings
SecretTexts(config) ==
  (IF Present(config, <<"a","p","i","_","k","e","y">>) THEN {PyStr(Field(config, <<"a","p","i","_","k","e","y">>))} ELSE {})
  \cup (IF /\ Present(config, <<"d","a","t","a","b","a","s","e">>)
           /\ Field(config, <<"d","a","t","a","b","a","s","e">>).t = "dict"
           /\ Present(Field(config, <<"d","a","t","a","b","a","s","e">>), <<"p","a","s","s","w","o","r","d">>)
        THEN {PyStr(Field(Field(config, <<"d","a","t","a","b","a","s","e">>), <<"p","a","s","s","w","o","r","d">>))} ELSE {})

\* the values another record can hold where this one holds a secret
OtherPasswords(config) ==
  IF /\ Present(config, <<"d","a","t","a","b","a","s","e">>)
     /\ Field(config, <<"d","a","t","a","b","a","s","e">>).t = "dict"
     /\ Present(Field(config, <<"d","a","t","a","b","a","s","e">>), <<"p","a","s","s","w","o","r","d">>)
  THEN PasswordValues ELSE {VNull}

OtherApiKeys(config) == IF Present(config, <<"a","p","i","_","k","e","y">>) THEN ApiKeyValues ELSE {VNull}

\* C10: two records that differ only in database.password and api_key, all
\* of them without '/', give the same findings and alerts that agree in
\* every field but timestamp; the value of a hardcoded_password or
\* hardcoded_api_key finding is '[REDACTED]'.
SecretsNeverReachOutput ==
  pc = "returned" =>
    /\ \A i \in DOMAIN vulnerabilities :
         vulnerabilities[i].type \in {"hardcoded_password", "hardcoded_api_key"} =>
           vulnerabilities[i].value = <<"[","R","E","D","A","C","T","E","D","]">>
    /\ \A password \in OtherPasswords(data), api_key \in OtherApiKeys(data) :
         LET other == WithSecrets(data, password, api_key)
             found == scan_for_issues(other, file_size)
         IN (\A text \in SecretTexts(data) \cup SecretTexts(other) : SlashFree(text)) =>
              /\ ~found.raised
              /\ found.value = vulnerabilities
              /\ \A now \in Clock :
                   LET second == send_security_alert(bucket_name, object_key,
                                                     found.value, now)
                   IN /\ second.is_none = alert.is_none
                      /\ ~alert.is_none =>
                           [second EXCEPT !.timestamp = 0] = [alert EXCEPT !.timestamp = 0]

BothSecretsRedacted ==
  /\ pc = "returned"
  /\ CountType(vulnerabilities, "hardcoded_password") = 1
  /\ CountType(vulnerabilities, "hardcoded_api_key") = 1
  /\ Field(Field(data, <<"d","a","t","a","b","a","s","e">>), <<"p","a","s","s","w","o","r","d">>) = VStr(<<"p","@","s","s","w","0","r","d">>)
  /\ ~alert.is_none
====
